---- MODULE Spec2Model ----
(***************************************************************************)
(* Response-scoring pipeline of the campus recruitment test generator      *)
(* (final.py, with the duumy.py variant of the evaluator): the Judge reply *)
(* cleaning and parsing, evaluate_with_llm, the rubric lookup, the         *)
(* "Evaluate All Responses" button loop and batch_evaluate_responses;      *)
(* further the Take Test page, the login gate with the feature blocks at   *)
(* the end of the script, the export and import of test codes, and the     *)
(* manual evaluation form of app4.py.                                      *)
(***************************************************************************)
EXTENDS Integers, Naturals, Sequences, FiniteSets, TLC

(***************************************************************************)
(* Bounds of the model.                                                    *)
(***************************************************************************)
\* The Judge may answer any mark in -1 .. MaxJudgeMarks.
MaxJudgeMarks == 2
\* Number of stored responses of the test.
NumResponses == 2
\* Longest Judge reply body (in tokens) explored by the text harness.
MaxBodyLen == 2
\* Longest rubric (in bands) explored by the rubric harness.
MaxBands == 2

(***************************************************************************)
(* Text.  A text is a sequence of tokens; a token is a record so that all  *)
(* texts are comparable.  Kinds of token:                                  *)
(*   "fence"  the three-backtick marker                                    *)
(*   "json"   the four letters json                                        *)
(*   "tag"    any other language tag (python, JSON, javascript, ...)       *)
(*   "ws"     white space (blank or newline)                               *)
(*   "prose"  text that is not JSON                                        *)
(*   "obj"    a JSON object literal; mt/mv describe its "marks" member and *)
(*            ft its "feedback" member                                     *)
(*   "num"    a JSON number literal (a JSON document that is no object)    *)
(***************************************************************************)
Tok(k) == [k |-> k, mt |-> "none", mv |-> 0, ft |-> "none"]

FENCE == Tok("fence")

JSONTAG == Tok("json")

OTHERTAG == Tok("tag")

WS == Tok("ws")

PROSE == Tok("prose")

NUMLIT == Tok("num")

\* {"marks": mv, "feedback": "..."} and its malformed relatives.
Obj(mt, mv, ft) == [k |-> "obj", mt |-> mt, mv |-> mv, ft |-> ft]

\* str.split(sep)[...] for a non-empty separator: the pieces between the
\* non-overlapping occurrences of sep, scanning from the left.
IsPrefix(p, s) == Len(p) <= Len(s) /\ SubSeq(s, 1, Len(p)) = p

RECURSIVE SplitFrom(_, _, _)
SplitFrom(s, sep, cur) ==
    IF s = <<>> THEN <<cur>>
    ELSE IF IsPrefix(sep, s)
         THEN <<cur>> \o SplitFrom(SubSeq(s, Len(sep) + 1, Len(s)), sep, <<>>)
         ELSE SplitFrom(Tail(s), sep, Append(cur, Head(s)))

Split(s, sep) == SplitFrom(s, sep, <<>>)

\* sep in s
Contains(s, sep) == Len(Split(s, sep)) > 1

\* str.strip(): drop leading and trailing white space.
RECURSIVE LStrip(_)
LStrip(s) == IF s # <<>> /\ Head(s) = WS THEN LStrip(Tail(s)) ELSE s

RECURSIVE RStrip(_)
RStrip(s) ==
    IF s # <<>> /\ s[Len(s)] = WS THEN RStrip(SubSeq(s, 1, Len(s) - 1)) ELSE s

Strip(s) == LStrip(RStrip(s))

\* Mutant of ExtractJson: the json branch forgets .split('```')[0], so the
\* closing marker stays in the text.
ExtractJsonKeepsClosingFence(evaluation_text) ==
    IF Contains(evaluation_text, <<FENCE, JSONTAG>>)
    THEN Strip(Split(evaluation_text, <<FENCE, JSONTAG>>)[2])
    ELSE IF Contains(evaluation_text, <<FENCE>>)
         THEN Strip(Split(evaluation_text, <<FENCE>>)[2])
         ELSE evaluation_text

\* The reply cleaning of evaluate_with_llm (and of the Generate Test page).
ExtractJson(evaluation_text) ==
    IF Contains(evaluation_text, <<FENCE, JSONTAG>>)
    THEN Strip(Split(Split(evaluation_text, <<FENCE, JSONTAG>>)[2], <<FENCE>>)[1])
    ELSE IF Contains(evaluation_text, <<FENCE>>)
         THEN Strip(Split(evaluation_text, <<FENCE>>)[2])
         ELSE evaluation_text

\* json.loads: white space around the document is accepted, the document is
\* one JSON value; anything else raises.  NoJson stands for the exception.
NoJson == Tok("error")

JsonLoads(text) ==
    LET t == Strip(text)
    IN IF Len(t) = 1 /\ t[1].k \in {"obj", "num"} THEN t[1] ELSE NoJson

(***************************************************************************)
(* JSON values as the evaluator stores them: a number, a string, or none   *)
(* (the member or field is missing).                                       *)
(***************************************************************************)
NumV(n) == [t |-> "num", v |-> n]

NoneV == [t |-> "none", v |-> 0]

(***************************************************************************)
(* The Judge (model.generate_content): a call either raises or returns a   *)
(* text.                                                                   *)
(***************************************************************************)
Raises == [raises |-> TRUE, text |-> <<>>]

Says(text) == [raises |-> FALSE, text |-> text]

\* The except branch of evaluate_with_llm; the exception text is abstracted.
FailedEvaluation ==
    [score |-> NumV(0), feedback |-> "Automatic evaluation failed", evaluated |-> FALSE]

\* The try block of evaluate_with_llm in final.py for one question:
\* generate_content, reply cleaning, json.loads, evaluation["marks"] and
\* evaluation["feedback"]; any exception gives the failure placeholder.
EvaluateReply(reply) ==
    IF reply.raises THEN FailedEvaluation
    ELSE LET evaluation == JsonLoads(ExtractJson(reply.text))
         IN IF evaluation = NoJson \/ evaluation.k # "obj" THEN FailedEvaluation
            ELSE IF evaluation.mt = "none" \/ evaluation.ft = "none"
                 THEN FailedEvaluation
                 ELSE [score |-> [t |-> evaluation.mt, v |-> evaluation.mv],
                       feedback |-> "fb",
                       evaluated |-> TRUE]

\* The same try block in the duumy.py variant of evaluate_with_llm: the
\* members are read with evaluation.get("marks", 0) and
\* evaluation.get("feedback", "No feedback provided"), so a missing member
\* raises nothing; a JSON value that is no object has no get and raises.
EvaluateReplyDuumy(reply) ==
    IF reply.raises THEN FailedEvaluation
    ELSE LET evaluation == JsonLoads(ExtractJson(reply.text))
         IN IF evaluation = NoJson \/ evaluation.k # "obj" THEN FailedEvaluation
            ELSE [score |-> IF evaluation.mt = "none" THEN NumV(0)
                            ELSE [t |-> evaluation.mt, v |-> evaluation.mv],
                  feedback |-> IF evaluation.ft = "none"
                               THEN "No feedback provided" ELSE "fb",
                  evaluated |-> TRUE]

(***************************************************************************)
(* Rubric lookup of the Evaluate Responses page.  A score_range string is  *)
(* a sequence of range tokens: a number, "-", "%" or junk (letters, an     *)
(* en dash, ...).  Numbers are whole percents.                             *)
(***************************************************************************)
RNum(n) == [k |-> "num", v |-> n]

DASH == [k |-> "dash", v |-> 0]

PCT == [k |-> "pct", v |-> 0]

JUNK == [k |-> "junk", v |-> 0]

\* range_str.replace('%', '')
RECURSIVE RemovePct(_)
RemovePct(s) ==
    IF s = <<>> THEN <<>>
    ELSE IF Head(s) = PCT THEN RemovePct(Tail(s))
         ELSE <<Head(s)>> \o RemovePct(Tail(s))

\* float(part) succeeds exactly on one number.
IsFloat(part) == Len(part) = 1 /\ part[1].k = "num"

\* lower, upper = map(float, range_str.replace('%', '').split('-')) inside
\* the try: FALSE stands for the swallowed exception (a part that is no
\* number, or not exactly two parts).
RangeParses(range_str) ==
    LET parts == Split(RemovePct(range_str), <<DASH>>)
    IN Len(parts) = 2 /\ IsFloat(parts[1]) /\ IsFloat(parts[2])

RangeLower(range_str) == Split(RemovePct(range_str), <<DASH>>)[1][1].v

RangeUpper(range_str) == Split(RemovePct(range_str), <<DASH>>)[2][1].v

\* Mutant of BandMatches: the lower end is excluded (lower < percentage).
BandMatchesAboveLower(data, num, den) ==
    /\ Contains(data.score_range, <<DASH>>)
    /\ RangeParses(data.score_range)
    /\ RangeLower(data.score_range) * den < num
    /\ num <= RangeUpper(data.score_range) * den

\* if '-' in range_str: try: ... if lower <= score_percentage <= upper.
\* The percentage is the exact quotient num / den (den > 0); the quotients
\* of the model are exact in floating point too.
BandMatches(data, num, den) ==
    /\ Contains(data.score_range, <<DASH>>)
    /\ RangeParses(data.score_range)
    /\ RangeLower(data.score_range) * den <= num
    /\ num <= RangeUpper(data.score_range) * den

\* Mutant of FindRubricLevel: no try around the parsing, so the exception of
\* a malformed range leaves the loop.
RECURSIVE FindRubricLevelNoTry(_, _, _)
FindRubricLevelNoTry(rubric, num, den) ==
    IF rubric = <<>> THEN ""
    ELSE IF /\ Contains(Head(rubric).score_range, <<DASH>>)
            /\ ~RangeParses(Head(rubric).score_range)
         THEN "<exception>"
         ELSE IF BandMatches(Head(rubric), num, den) THEN Head(rubric).description
              ELSE FindRubricLevelNoTry(Tail(rubric), num, den)

\* Mutant of FindRubricLevel: no break after a match, so the last band that
\* holds the percentage replaces the earlier ones.
RECURSIVE FindRubricLevelNoBreak(_, _, _)
FindRubricLevelNoBreak(rubric, num, den) ==
    IF rubric = <<>> THEN ""
    ELSE LET later == FindRubricLevelNoBreak(Tail(rubric), num, den)
         IN IF later # "" THEN later
            ELSE IF BandMatches(Head(rubric), num, den)
                 THEN Head(rubric).description
                 ELSE ""

\* for level, data in rubric.items(): ... overall_feedback = description; break
\* The rubric is the sequence of its bands in the table's iteration order.
RECURSIVE FindRubricLevel(_, _, _)
FindRubricLevel(rubric, num, den) ==
    IF rubric = <<>> THEN ""
    ELSE IF BandMatches(Head(rubric), num, den) THEN Head(rubric).description
         ELSE FindRubricLevel(Tail(rubric), num, den)

(***************************************************************************)
(* The test definition (tests_collection) and the inputs of the model.     *)
(***************************************************************************)
Band(level, range_str) ==
    [level |-> level, score_range |-> range_str, description |-> level]

\* The four bands the generator is asked for.
StandardRubric ==
    << Band("excellent", <<RNum(90), DASH, RNum(100)>>),
       Band("good", <<RNum(70), PCT, DASH, RNum(89), PCT>>),
       Band("average", <<RNum(40), DASH, RNum(69)>>),
       Band("poor", <<RNum(0), DASH, RNum(39)>>) >>

\* A type string is the sequence of its characters, each with its case.
Up(c) == [c |-> c, upper |-> TRUE]

Lo(c) == [c |-> c, upper |-> FALSE]

\* "MCQ" and "CODING", as the generator is asked to write them.
TypeMCQ == <<Up("m"), Up("c"), Up("q")>>

TypeCODING == <<Up("c"), Up("o"), Up("d"), Up("i"), Up("n"), Up("g")>>

McqQuestion ==
    [question_id |-> "q1", question_type |-> TypeMCQ, marks |-> 1,
     correct_answer |-> "A"]

CodingQuestion ==
    [question_id |-> "q2", question_type |-> TypeCODING, marks |-> 1,
     correct_answer |-> ""]

Sections ==
    << [section_name |-> "Aptitude", questions |-> <<McqQuestion>>],
       [section_name |-> "Programming", questions |-> <<CodingQuestion>>] >>

\* total_marks is what the generator wrote: the sum of the marks, or 0.
TestDatas ==
    { [total_marks |-> tm, sections |-> Sections, grading_rubric |-> StandardRubric]
        : tm \in {0, 2} }

\* for section in test_data['sections']: for question in section['questions']
RECURSIVE QuestionsOf(_)
QuestionsOf(sections) ==
    IF sections = <<>> THEN <<>>
    ELSE Head(sections).questions \o QuestionsOf(Tail(sections))

\* What a candidate may have submitted: the 'responses' map of a stored
\* response.  An option of an mcq is stored as chosen ("A" or its case
\* variant "a"); an unanswered question has no entry; the auto-submit at
\* the end of the time stores the map as it is, possibly empty.
AnswerSheets ==
    << [q \in {"q1", "q2"} |-> IF q = "q1" THEN "A" ELSE "code"],
       [q \in {"q1"} |-> "a"],
       [q \in {"q2"} |-> "code"],
       [q \in {} |-> ""] >>

\* The stored responses are consecutive sheets, starting after this many.
SheetOffsets == {0, 2}

\* The sheet of the rid-th response.
SheetOf(rid) == AnswerSheets[((rid - 1) % Len(AnswerSheets)) + 1]

ResponseIds == 1 .. NumResponses

JudgeMarks == (0 - 1) .. MaxJudgeMarks

\* The replies of the Judge the model explores for one call.
JudgeReplies ==
    {Raises}
    \cup {Says(<<Obj("num", m, "str")>>) : m \in JudgeMarks}
    \cup {Says(<<FENCE, JSONTAG, WS, Obj("num", 1, "str"), WS, FENCE>>),
          Says(<<Obj("str", 0, "str")>>),
          Says(<<Obj("none", 0, "str")>>)}

(***************************************************************************)
(* evaluate_with_llm and the arithmetic of its callers.                    *)
(***************************************************************************)
\* Mutant of Lower: the string is compared as it is written.
LowerLeftOut(question_type) == question_type

\* str.lower(): every character in its lower case.
Lower(question_type) ==
    [i \in DOMAIN question_type |-> [question_type[i] EXCEPT !.upper = FALSE]]

\* The literals 'mcq' and 'coding'.
LiteralMcq == <<Lo("m"), Lo("c"), Lo("q")>>

LiteralCoding == <<Lo("c"), Lo("o"), Lo("d"), Lo("i"), Lo("n"), Lo("g")>>

\* The branch of the prompt that evaluate_with_llm builds for a question:
\* every type of question, mcq included, is sent to the Judge.
PromptKind(question) ==
    IF Lower(question.question_type) = LiteralMcq THEN "mcq"
    ELSE IF Lower(question.question_type) = LiteralCoding THEN "coding"
    ELSE "other"

\* question_id in student_responses['responses']
Answered(student_responses) == DOMAIN student_responses.responses

RECURSIVE SeqToSet(_)
SeqToSet(seq) == IF seq = <<>> THEN {} ELSE {Head(seq)} \cup SeqToSet(Tail(seq))

\* Mutant of evaluate_with_llm: a question without an entry is not passed
\* over but given a zero result.
evaluate_with_llm_zero_for_missing(student_responses, test, judge) ==
    [question_id \in {x.question_id : x \in SeqToSet(QuestionsOf(test.sections))} |->
        IF question_id \in Answered(student_responses)
        THEN EvaluateReply(judge[question_id])
        ELSE [score |-> NumV(0), feedback |-> "No answer submitted",
              evaluated |-> TRUE]]

\* evaluate_with_llm(student_responses, test_data) of final.py; judge[q] is
\* what the Judge does when called for question q.  A question without an
\* entry in the responses is passed over: it gets no evaluation.
evaluate_with_llm(student_responses, test, judge) ==
    LET asked == { question.question_id :
                     question \in { x \in SeqToSet(QuestionsOf(test.sections)) :
                                      x.question_id \in Answered(student_responses) } }
    IN [question_id \in asked |-> EvaluateReply(judge[question_id])]

\* Mutant of SumRaises: a placeholder among the results makes the caller
\* fail as well.
SumRaisesOnPlaceholder(evaluations) ==
    \E q \in DOMAIN evaluations :
        evaluations[q].score.t # "num" \/ ~evaluations[q].evaluated

\* sum(eval_data['score'] for eval_data in evaluations.values()) raises a
\* TypeError when a score is not a number.
SumRaises(evaluations) ==
    \E q \in DOMAIN evaluations : evaluations[q].score.t # "num"

RECURSIVE SumOver(_, _)
SumOver(evaluations, qs) ==
    IF qs = {} THEN 0
    ELSE LET q == CHOOSE x \in qs : TRUE
         IN evaluations[q].score.v + SumOver(evaluations, qs \ {q})

SumScores(evaluations) == SumOver(evaluations, DOMAIN evaluations)

(***************************************************************************)
(* State.                                                                  *)
(***************************************************************************)
VARIABLES
    test_data,             \* the test record of tests_collection
    responses_collection,  \* response id -> stored response document
    session,               \* teacher session -> the state of its evaluation loop
    judge_log,             \* history: the latest evaluate_with_llm call
    lookup,                \* rubric lookup on its own: inputs and result
    cleaning,              \* reply cleaning on its own: body and results
    typing,                \* question type matching on its own: type and result
    analysis,              \* analyze_student_performance: input and statistics
    take,                  \* Take Test page: the browser sessions of one student
    taken_responses,       \* responses this student has stored for the test
    app,                   \* the script as a whole: login state and the last run
    manual,                \* manual evaluation (app4.py): the document and the form
    transfer               \* export and import of a test code

vars == <<test_data, responses_collection, session, judge_log, lookup, cleaning,
          typing, analysis, take, taken_responses, app, manual, transfer>>

\* The variables outside the evaluation runs: the stand-alone harnesses and
\* the other pages.
harness == <<lookup, cleaning, typing, analysis, take, taken_responses, app,
             manual, transfer>>

\* The variables of the evaluation runs.
store == <<test_data, responses_collection, session, judge_log>>

Sessions == {"s1", "s2"}

\* A response as the Take Test page inserts it: no 'evaluated' field yet.
Submitted(sheet) ==
    [student_email |-> "student",
     end_time |-> "submitted",
     responses |-> sheet,
     evaluated |-> FALSE,
     evaluations |-> <<>>,
     score |-> NoneV,
     overall_feedback |-> "<unset>",
     evaluated_at |-> "<unset>",
     evaluated_by |-> "<unset>"]

\* test_id is the argument of the last batch_evaluate_responses call of the
\* session, ok its returned flag and message the message of an early return.
IdleSession ==
    [pc |-> "idle", kind |-> "none", todo |-> <<>>, n |-> 0,
     success_count |-> 0, error_count |-> 0, ok |-> FALSE,
     test_id |-> "<none>", message |-> "<none>"]

\* judge[q] is what the Judge did for question q of response rid; raised
\* tells that the caller got an exception after evaluate_with_llm returned.
NoCall == [rid |-> 0, judge |-> <<>>, raised |-> FALSE]

NoLookup == [num |-> 0, den |-> 1, rubric |-> <<>>, overall_feedback |-> "<unset>"]

\* A result that has not been computed yet.
Pending == [score |-> NoneV, feedback |-> "<pending>", evaluated |-> FALSE]

NoAnalysis == [evaluations |-> <<>>, done |-> FALSE, section_performance |-> <<>>]

\* Two browser sessions (tabs, devices) in which the same student is logged in.
StudentSessions == {"t1", "t2"}

\* Session state of a student after login: no test selected, nothing
\* submitted, student_responses empty.  time_up says that the time limit has
\* passed since start_time; answered counts the entries of
\* student_responses['responses']; run names what the last page run did.
NotStarted ==
    [current_test_id |-> "<none>", test_submitted |-> FALSE, time_up |-> FALSE,
     answered |-> 0, end_time |-> "<unset>", run |-> "<none>"]

NoTake == [t \in StudentSessions |-> NotStarted]

\* One browser session of the whole script before its first run: nobody
\* logged in, st.session_state.advanced_features not yet created.  run,
\* handlers and error describe the last run of the script: whether it began
\* logged in, the handlers it went through and the exception it ended with.
NoFeatures ==
    [created |-> FALSE, enable_ai_analysis |-> FALSE,
     enable_certificates |-> FALSE, dark_mode |-> FALSE]

NoApp ==
    [logged_in |-> FALSE, user_type |-> "<none>", advanced_features |-> NoFeatures,
     run |-> "<none>", handlers |-> <<>>, error |-> "<none>"]

\* Python values as json.loads builds them and json.dumps takes them: k is
\* the type; words holds the words of a str, n the number of an int or
\* float, items the items of a list or tuple, members the (name, value)
\* pairs of a dict.
PyNone == [k |-> "none", words |-> <<>>, n |-> 0, items |-> <<>>, members |-> {}]
PyStr(words) == [PyNone EXCEPT !.k = "str", !.words = words]
PyInt(n) == [PyNone EXCEPT !.k = "int", !.n = n]
PyFloat(n) == [PyNone EXCEPT !.k = "float", !.n = n]
PyList(items) == [PyNone EXCEPT !.k = "list", !.items = items]
PyTuple(items) == [PyNone EXCEPT !.k = "tuple", !.items = items]
PyDict(members) == [PyNone EXCEPT !.k = "dict", !.members = members]

\* A JSON text: j is "object", "array", "string", "number", "null" or
\* "invalid" (not JSON); a number keeps whether it has a decimal point.
NotJsonText ==
    [j |-> "invalid", words |-> <<>>, n |-> 0, point |-> FALSE, items |-> <<>>,
     members |-> {}]

\* A test code: whether its base64 padding is right, whether the decoded
\* bytes are UTF-8, and the decoded text.
NoCode == [padded |-> FALSE, utf8 |-> FALSE, text |-> NotJsonText]

\* Export and import before anything is exported or pasted.
NoTransfer ==
    [test |-> PyNone, code |-> NoCode, origin |-> "<none>", pc |-> "start",
     imported |-> PyNone, message |-> "<none>"]

\* Manual evaluation (app4.py) before a response document is chosen.
NoManual == [document |-> [responses |-> <<>>, evaluated |-> FALSE, score |-> NoneV],
             pc |-> "list", marks |-> <<>>]

NoTyping == [question_type |-> <<>>, kind |-> "<unset>", result |-> Pending]

NoCleaning == [body |-> <<>>, plain |-> Pending, json |-> Pending,
               bare |-> Pending, tagged |-> Pending, duumy |-> Pending]

Init ==
    /\ test_data \in TestDatas
    /\ responses_collection \in
          { [rid \in ResponseIds |-> Submitted(SheetOf(rid + offset))]
              : offset \in SheetOffsets }
    /\ session = [s \in Sessions |-> IdleSession]
    /\ judge_log = NoCall
    /\ lookup = NoLookup
    /\ cleaning = NoCleaning
    /\ typing = NoTyping
    /\ analysis = NoAnalysis
    /\ take = NoTake
    /\ taken_responses = <<>>
    /\ app = NoApp
    /\ manual = NoManual
    /\ transfer = NoTransfer

\* responses_collection.find({"test_id": ..., "evaluated": {"$ne": True}}),
\* in insertion order.
RECURSIVE FindUnevaluated(_, _)
FindUnevaluated(collection, rid) ==
    IF rid > NumResponses THEN <<>>
    ELSE (IF collection[rid].evaluated THEN <<>> ELSE <<rid>>)
         \o FindUnevaluated(collection, rid + 1)

\* .sort("end_time", -1): the latest submission first (responses are
\* numbered in the order of their end_time).
RECURSIVE Reverse(_)
Reverse(seq) == IF seq = <<>> THEN <<>> ELSE Append(Reverse(Tail(seq)), Head(seq))

Running(s, kind) == session[s].pc = "loop" /\ session[s].kind = kind

\* Mutant of Advance: the loop is left at the first failure.
AdvanceStopsAtFailure(run, succeeded, failed) ==
    [run EXCEPT !.todo = Tail(run.todo),
                !.success_count = @ + succeeded,
                !.error_count = @ + failed,
                !.pc = IF failed > 0 THEN "aborted"
                       ELSE IF Tail(run.todo) = <<>> THEN "done" ELSE "loop",
                !.ok = TRUE]

\* What a loop does to its session after one response.
Advance(run, succeeded, failed) ==
    [run EXCEPT !.todo = Tail(run.todo),
                !.success_count = @ + succeeded,
                !.error_count = @ + failed,
                !.pc = IF Tail(run.todo) = <<>> THEN "done" ELSE "loop",
                !.ok = TRUE]

\* Mutant of PageUpdate: the update replaces the document, so the submitted
\* answers are lost.
PageUpdateReplacesDocument(doc, evaluations, total_score, overall_feedback) ==
    [doc EXCEPT !.responses = <<>>,
                !.evaluations = evaluations,
                !.score = NumV(total_score),
                !.overall_feedback = overall_feedback,
                !.evaluated = TRUE,
                !.evaluated_at = "now",
                !.evaluated_by = "teacher"]

\* responses_collection.update_one({"_id": ...}, {"$set": {...}}) of the
\* page; datetime.now() and the teacher's username are abstracted.
PageUpdate(doc, evaluations, total_score, overall_feedback) ==
    [doc EXCEPT !.evaluations = evaluations,
                !.score = NumV(total_score),
                !.overall_feedback = overall_feedback,
                !.evaluated = TRUE,
                !.evaluated_at = "now",
                !.evaluated_by = "teacher"]

\* Mutant of BatchUpdate: the score is left out of the $set.
BatchUpdateWithoutScore(doc, evaluations, total_score) ==
    [doc EXCEPT !.evaluations = evaluations,
                !.evaluated = TRUE,
                !.evaluated_at = "now"]

\* responses_collection.update_one of batch_evaluate_responses: no
\* overall_feedback and no evaluated_by is written.
BatchUpdate(doc, evaluations, total_score) ==
    [doc EXCEPT !.evaluations = evaluations,
                !.score = NumV(total_score),
                !.evaluated = TRUE,
                !.evaluated_at = "now"]

(***************************************************************************)
(* Evaluate Responses page: the "Evaluate All Responses" button.           *)
(***************************************************************************)
\* The page run that handles the button: the unevaluated responses are
\* queried and the loop over them starts.
PageEvaluateAll(s) ==
    /\ session[s].pc \notin {"loop", "waiting"}
    /\ LET unevaluated_responses == Reverse(FindUnevaluated(responses_collection, 1))
       IN /\ unevaluated_responses # <<>>
          /\ session' = [session EXCEPT ![s] =
                [IdleSession EXCEPT !.pc = "loop", !.kind = "button",
                                    !.todo = unevaluated_responses,
                                    !.n = Len(unevaluated_responses)]]
    /\ UNCHANGED <<test_data, responses_collection, judge_log, harness>>

\* One iteration of the loop.  Nothing catches the TypeError of the sum or
\* the ZeroDivisionError of the percentage: the page run ends there.
PageEvaluateOne(s) ==
    /\ Running(s, "button")
    /\ LET rid == Head(session[s].todo)
           response == responses_collection[rid]
       IN \E judge \in [Answered(response) -> JudgeReplies] :
            LET evaluations == evaluate_with_llm(response, test_data, judge)
                total_score == SumScores(evaluations)
                total_marks == test_data.total_marks
                overall_feedback ==
                    FindRubricLevel(test_data.grading_rubric,
                                    total_score * 100, total_marks)
            IN IF SumRaises(evaluations) \/ total_marks = 0
               THEN /\ session' = [session EXCEPT ![s].pc = "aborted"]
                    /\ judge_log' = [rid |-> rid, judge |-> judge, raised |-> TRUE]
                    /\ UNCHANGED responses_collection
               ELSE /\ responses_collection' =
                         [responses_collection EXCEPT ![rid] =
                            PageUpdate(@, evaluations, total_score, overall_feedback)]
                    /\ session' = [session EXCEPT ![s] = Advance(@, 1, 0)]
                    /\ judge_log' = [rid |-> rid, judge |-> judge, raised |-> FALSE]
    /\ UNCHANGED <<test_data, harness>>

(***************************************************************************)
(* batch_evaluate_responses (sidebar "Evaluate All Pending Tests").        *)
(***************************************************************************)
\* The ids of the records of tests_collection: the one test of the model.
StoredTestIds == {"test"}

\* The ids batch_evaluate_responses may be called with: the stored test, or
\* an id that has no record.
TestIds == StoredTestIds \cup {"gone"}

\* Every response of the collection, whatever its evaluated flag.
RECURSIVE FindAll(_)
FindAll(rid) ==
    IF rid > NumResponses THEN <<>> ELSE <<rid>> \o FindAll(rid + 1)

\* Mutant of BatchStart: the query has no condition on evaluated, and the
\* test record is not looked up.
BatchStartSelectsAll(s, test_id) ==
    /\ session[s].pc \notin {"loop", "waiting"}
    /\ LET unevaluated_responses == FindAll(1)
       IN session' = [session EXCEPT ![s] =
             [IdleSession EXCEPT
                !.pc = IF unevaluated_responses = <<>> THEN "done" ELSE "loop",
                !.kind = "batch",
                !.test_id = test_id,
                !.message = IF unevaluated_responses = <<>>
                            THEN "No unevaluated responses found" ELSE "<none>",
                !.todo = unevaluated_responses,
                !.n = Len(unevaluated_responses)]]
    /\ UNCHANGED <<test_data, responses_collection, judge_log, harness>>

\* The call and the two early returns: (False, "Test not found") when
\* tests_collection has no record of test_id, (False, "No unevaluated
\* responses found") when the query finds nothing.
BatchStart(s, test_id) ==
    /\ session[s].pc \notin {"loop", "waiting"}
    /\ LET unevaluated_responses ==
               IF test_id \in StoredTestIds
               THEN FindUnevaluated(responses_collection, 1) ELSE <<>>
       IN session' = [session EXCEPT ![s] =
             [IdleSession EXCEPT
                !.pc = IF unevaluated_responses = <<>> THEN "done" ELSE "loop",
                !.kind = "batch",
                !.test_id = test_id,
                !.message = IF test_id \notin StoredTestIds
                            THEN "Test not found"
                            ELSE IF unevaluated_responses = <<>>
                            THEN "No unevaluated responses found" ELSE "<none>",
                !.todo = unevaluated_responses,
                !.n = Len(unevaluated_responses)]]
    /\ UNCHANGED <<test_data, responses_collection, judge_log, harness>>

\* Mutant of BatchEvaluateOne: a failure discards what is stored, every
\* response going back to the state of its submission.
BatchEvaluateOneRollsBack(s) ==
    /\ Running(s, "batch")
    /\ LET rid == Head(session[s].todo)
           response == responses_collection[rid]
       IN \E judge \in [Answered(response) -> JudgeReplies] :
            LET evaluations == evaluate_with_llm(response, test_data, judge)
                total_score == SumScores(evaluations)
            IN IF SumRaises(evaluations)
               THEN /\ session' = [session EXCEPT ![s] = Advance(@, 0, 1)]
                    /\ judge_log' = [rid |-> rid, judge |-> judge, raised |-> TRUE]
                    /\ responses_collection' =
                         [r \in ResponseIds |->
                            Submitted(responses_collection[r].responses)]
               ELSE /\ responses_collection' =
                         [responses_collection EXCEPT ![rid] =
                            BatchUpdate(@, evaluations, total_score)]
                    /\ session' = [session EXCEPT ![s] = Advance(@, 1, 0)]
                    /\ judge_log' = [rid |-> rid, judge |-> judge, raised |-> FALSE]
    /\ UNCHANGED <<test_data, harness>>

\* One iteration of the loop: try ... except Exception: error_count += 1.
BatchEvaluateOne(s) ==
    /\ Running(s, "batch")
    /\ LET rid == Head(session[s].todo)
           response == responses_collection[rid]
       IN \E judge \in [Answered(response) -> JudgeReplies] :
            LET evaluations == evaluate_with_llm(response, test_data, judge)
                total_score == SumScores(evaluations)
            IN IF SumRaises(evaluations)
               THEN /\ session' = [session EXCEPT ![s] = Advance(@, 0, 1)]
                    /\ judge_log' = [rid |-> rid, judge |-> judge, raised |-> TRUE]
                    /\ UNCHANGED responses_collection
               ELSE /\ responses_collection' =
                         [responses_collection EXCEPT ![rid] =
                            BatchUpdate(@, evaluations, total_score)]
                    /\ session' = [session EXCEPT ![s] = Advance(@, 1, 0)]
                    /\ judge_log' = [rid |-> rid, judge |-> judge, raised |-> FALSE]
    /\ UNCHANGED <<test_data, harness>>

\* One teacher session: its script runs follow one another.
Next ==
    \/ PageEvaluateAll("s1")
    \/ PageEvaluateOne("s1")
    \/ BatchStart("s1", "test")
    \/ BatchEvaluateOne("s1")

Spec == Init /\ [][Next]_vars

\* The same session with the scheduling of its script run: a loop that has
\* been entered goes on to its next iteration.
Fairness ==
    /\ WF_vars(PageEvaluateOne("s1"))
    /\ WF_vars(BatchEvaluateOne("s1"))

\* The sidebar batch on its own, in a session that runs nothing else.
NextBatch ==
    \/ BatchStart("s1", "test")
    \/ BatchEvaluateOne("s1")

SpecBatchFair == Init /\ [][NextBatch]_vars /\ WF_vars(BatchEvaluateOne("s1"))

\* batch_evaluate_responses called again and again in one session, with the
\* id of the stored test or with an id that has no record.
NextBatchCall ==
    \/ \E test_id \in TestIds : BatchStart("s1", test_id)
    \/ BatchEvaluateOne("s1")

SpecBatchCall == Init /\ [][NextBatchCall]_vars

\* The batch run over a response that was evaluated before and whose
\* evaluated flag has been cleared in the store since (no page of the
\* application clears it): the first response holds the evaluations, the
\* score and the stamp of an earlier batch run.
EarlierEvaluations(doc, test) ==
    { evaluate_with_llm(doc, test, judge) :
        judge \in [Answered(doc) -> JudgeReplies] }

InitReevaluate ==
    /\ test_data \in TestDatas
    /\ \E offset \in SheetOffsets :
          LET first == Submitted(SheetOf(1 + offset))
          IN \E earlier \in EarlierEvaluations(first, test_data) :
                /\ ~SumRaises(earlier)
                /\ responses_collection =
                      [rid \in ResponseIds |->
                         IF rid = 1
                         THEN [BatchUpdate(first, earlier, SumScores(earlier))
                                 EXCEPT !.evaluated = FALSE]
                         ELSE Submitted(SheetOf(rid + offset))]
    /\ session = [s \in Sessions |-> IdleSession]
    /\ judge_log = NoCall
    /\ lookup = NoLookup
    /\ cleaning = NoCleaning
    /\ typing = NoTyping
    /\ analysis = NoAnalysis
    /\ take = NoTake
    /\ taken_responses = <<>>
    /\ app = NoApp
    /\ manual = NoManual
    /\ transfer = NoTransfer

SpecReevaluate == InitReevaluate /\ [][NextBatch]_vars

\* model.generate_content(prompt) is called without a timeout: besides
\* returning and raising, the call may not come back.  The run then sits
\* inside evaluate_with_llm, in the iteration of the response it was
\* handling; nothing in the code ends the call.
JudgeHangs(s) ==
    /\ session[s].pc = "loop"
    /\ Answered(responses_collection[Head(session[s].todo)]) # {}
    /\ session' = [session EXCEPT ![s].pc = "waiting"]
    /\ UNCHANGED <<test_data, responses_collection, judge_log, harness>>

NextBlocking ==
    \/ PageEvaluateAll("s1")
    \/ PageEvaluateOne("s1")
    \/ BatchStart("s1", "test")
    \/ BatchEvaluateOne("s1")
    \/ JudgeHangs("s1")

SpecBlocking == Init /\ [][NextBlocking]_vars /\ Fairness

\* Two teacher sessions (or browser tabs) whose script runs interleave;
\* each session handles one button press.
FirstPress(s) == session[s].pc \in {"idle", "loop"}

NextConcurrent ==
    \/ \E s \in Sessions : FirstPress(s) /\ PageEvaluateAll(s)
    \/ \E s \in Sessions : FirstPress(s) /\ PageEvaluateOne(s)
    \/ \E s \in Sessions : FirstPress(s) /\ BatchStart(s, "test")
    \/ \E s \in Sessions : FirstPress(s) /\ BatchEvaluateOne(s)

SpecConcurrent == Init /\ [][NextConcurrent]_vars

(***************************************************************************)
(* The rubric lookup on its own: the loop over rubric.items() applied to   *)
(* a percentage (in half percents, num / 2) and a rubric drawn from a pool *)
(* of well-formed, overlapping and malformed bands.                        *)
(***************************************************************************)
RangePool ==
    { <<RNum(0), DASH, RNum(39)>>,                \* "0-39"
      <<RNum(40), DASH, RNum(69)>>,               \* "40-69"
      <<RNum(70), PCT, DASH, RNum(100), PCT>>,    \* "70%-100%"
      <<RNum(30), DASH, RNum(80)>>,               \* "30-80", overlaps
      <<RNum(40)>>,                               \* "40": no "-"
      <<RNum(40), JUNK, RNum(69)>>,               \* "40 to 69": no "-"
      <<JUNK, DASH, RNum(69)>>,                   \* "low-69": not a number
      <<RNum(0), DASH, RNum(50), DASH, RNum(100)>>, \* "0-50-100": three parts
      <<DASH, RNum(5)>> }                         \* "-5": an empty part

\* Each band of the pool is described by its position in the pool.
BandPool ==
    { [level |-> "level", score_range |-> r,
       description |-> ToString(r)] : r \in RangePool }

Rubrics == UNION { [1 .. n -> BandPool] : n \in 0 .. MaxBands }

\* -5, 0, 39, 39.5, 40, 55, 69, 69.5, 70, 100 and 100.5 percent.
HalfPercents == {0 - 10, 0, 78, 79, 80, 110, 138, 139, 140, 200, 201}

InitLookup ==
    /\ test_data = [total_marks |-> 2, sections |-> Sections,
                    grading_rubric |-> StandardRubric]
    /\ responses_collection = [rid \in ResponseIds |-> Submitted(SheetOf(rid))]
    /\ session = [s \in Sessions |-> IdleSession]
    /\ judge_log = NoCall
    /\ cleaning = NoCleaning
    /\ typing = NoTyping
    /\ analysis = NoAnalysis
    /\ take = NoTake
    /\ taken_responses = <<>>
    /\ app = NoApp
    /\ manual = NoManual
    /\ transfer = NoTransfer
    /\ lookup \in { [num |-> n, den |-> 2, rubric |-> r, overall_feedback |-> "<unset>"]
                      : n \in HalfPercents, r \in Rubrics }

\* overall_feedback = ""; for level, data in rubric.items(): ...
RubricLookup ==
    /\ lookup.overall_feedback = "<unset>"
    /\ lookup' = [lookup EXCEPT !.overall_feedback =
                     FindRubricLevel(lookup.rubric, lookup.num, lookup.den)]
    /\ UNCHANGED <<store, cleaning, typing, analysis, take, taken_responses, app, manual, transfer>>

NextLookup == RubricLookup

SpecLookup == InitLookup /\ [][NextLookup]_vars

(***************************************************************************)
(* The reply cleaning on its own: one reply body, sent by the Judge        *)
(* unwrapped, in a json-tagged fence, in an untagged fence and in a fence  *)
(* with another language tag, each evaluated as evaluate_with_llm does.    *)
(***************************************************************************)
BodyTokens ==
    { Obj("num", 1, "str"), Obj("num", 0, "str"), Obj("str", 0, "str"),
      Obj("none", 0, "str"), Obj("num", 1, "none"),
      NUMLIT, PROSE, WS, FENCE, JSONTAG }

Bodies == UNION { [1 .. n -> BodyTokens] : n \in 0 .. MaxBodyLen }

\* A fenced block: the marker, the tag if any, a newline, the body, a
\* newline, the marker.
Fenced(tag, body) == <<FENCE>> \o tag \o <<WS>> \o body \o <<WS, FENCE>>

InitCleaning ==
    /\ test_data = [total_marks |-> 2, sections |-> Sections,
                    grading_rubric |-> StandardRubric]
    /\ responses_collection = [rid \in ResponseIds |-> Submitted(SheetOf(rid))]
    /\ session = [s \in Sessions |-> IdleSession]
    /\ judge_log = NoCall
    /\ lookup = NoLookup
    /\ cleaning \in { [NoCleaning EXCEPT !.body = b] : b \in Bodies }
    /\ typing = NoTyping
    /\ analysis = NoAnalysis
    /\ take = NoTake
    /\ taken_responses = <<>>
    /\ app = NoApp
    /\ manual = NoManual
    /\ transfer = NoTransfer

CleanPlain ==
    /\ cleaning.plain = Pending
    /\ cleaning' = [cleaning EXCEPT !.plain = EvaluateReply(Says(cleaning.body))]
    /\ UNCHANGED <<store, lookup, typing, analysis, take, taken_responses, app, manual, transfer>>

CleanJsonFenced ==
    /\ cleaning.json = Pending
    /\ cleaning' = [cleaning EXCEPT !.json =
                       EvaluateReply(Says(Fenced(<<JSONTAG>>, cleaning.body)))]
    /\ UNCHANGED <<store, lookup, typing, analysis, take, taken_responses, app, manual, transfer>>

CleanBareFenced ==
    /\ cleaning.bare = Pending
    /\ cleaning' = [cleaning EXCEPT !.bare =
                       EvaluateReply(Says(Fenced(<<>>, cleaning.body)))]
    /\ UNCHANGED <<store, lookup, typing, analysis, take, taken_responses, app, manual, transfer>>

CleanTagged ==
    /\ cleaning.tagged = Pending
    /\ cleaning' = [cleaning EXCEPT !.tagged =
                       EvaluateReply(Says(Fenced(<<OTHERTAG>>, cleaning.body)))]
    /\ UNCHANGED <<store, lookup, typing, analysis, take, taken_responses, app, manual, transfer>>

\* The unwrapped reply given to the duumy.py variant.
CleanPlainDuumy ==
    /\ cleaning.duumy = Pending
    /\ cleaning' = [cleaning EXCEPT !.duumy = EvaluateReplyDuumy(Says(cleaning.body))]
    /\ UNCHANGED <<store, lookup, typing, analysis, take, taken_responses, app, manual, transfer>>

NextCleaning ==
    \/ CleanPlain
    \/ CleanJsonFenced
    \/ CleanBareFenced
    \/ CleanTagged
    \/ CleanPlainDuumy

SpecCleaning == InitCleaning /\ [][NextCleaning]_vars

(***************************************************************************)
(* The question type matching on its own: evaluate_with_llm applied to a   *)
(* one-question test whose question_type is "mcq", "coding", "essay",      *)
(* "mcqs", "mc" or "code" in any casing, or the empty string.              *)
(***************************************************************************)
Casings(word) ==
    { [i \in 1 .. Len(word) |-> [c |-> word[i], upper |-> ups[i]]] :
        ups \in [1 .. Len(word) -> BOOLEAN] }

TypeStrings ==
    Casings(<<"m", "c", "q">>) \cup Casings(<<"c", "o", "d", "i", "n", "g">>)
    \cup Casings(<<"e", "s", "s", "a", "y">>) \cup Casings(<<"m", "c", "q", "s">>)
    \cup Casings(<<"m", "c">>) \cup Casings(<<"c", "o", "d", "e">>) \cup {<<>>}

InitTyping ==
    /\ test_data = [total_marks |-> 2, sections |-> Sections,
                    grading_rubric |-> StandardRubric]
    /\ responses_collection = [rid \in ResponseIds |-> Submitted(SheetOf(rid))]
    /\ session = [s \in Sessions |-> IdleSession]
    /\ judge_log = NoCall
    /\ lookup = NoLookup
    /\ cleaning = NoCleaning
    /\ typing \in { [NoTyping EXCEPT !.question_type = t] : t \in TypeStrings }
    /\ analysis = NoAnalysis
    /\ take = NoTake
    /\ taken_responses = <<>>
    /\ app = NoApp
    /\ manual = NoManual
    /\ transfer = NoTransfer

\* evaluate_with_llm on the answered question q1 of that type; the Judge
\* raises or replies with 0 or 1 marks.
EvaluateTyped ==
    /\ typing.kind = "<unset>"
    /\ LET question == [McqQuestion EXCEPT !.question_type = typing.question_type]
           test == [total_marks |-> 1,
                    sections |-> <<[section_name |-> "Typed",
                                    questions |-> <<question>>]>>,
                    grading_rubric |-> StandardRubric]
       IN \E reply \in {Raises, Says(<<Obj("num", 0, "str")>>),
                         Says(<<Obj("num", 1, "str")>>)} :
            typing' = [typing EXCEPT
                          !.kind = PromptKind(question),
                          !.result = evaluate_with_llm(Submitted(SheetOf(2)), test,
                                                       [q \in {"q1"} |-> reply])["q1"]]
    /\ UNCHANGED <<store, lookup, cleaning, analysis, take, taken_responses, app, manual, transfer>>

NextTyping == EvaluateTyped

SpecTyping == InitTyping /\ [][NextTyping]_vars

(***************************************************************************)
(* analyze_student_performance on its own: the per-section statistics of a *)
(* response whose evaluations cover any part of the questions of a test    *)
(* with a two-question section, a one-question section and an empty one.   *)
(***************************************************************************)
AnalysisSections ==
    << [section_name |-> "Aptitude",
        questions |-> <<McqQuestion,
                        [McqQuestion EXCEPT !.question_id = "q3", !.marks = 2]>>],
       [section_name |-> "Programming", questions |-> <<CodingQuestion>>],
       [section_name |-> "Empty", questions |-> <<>>] >>

\* The evaluations a stored response may hold: a numeric score for any
\* part of the questions.
AnalysisEvaluations ==
    UNION { [qs -> { [score |-> NumV(m), feedback |-> "fb", evaluated |-> TRUE]
                       : m \in JudgeMarks }]
              : qs \in SUBSET {"q1", "q2", "q3"} }

\* Mutant of SectionStats: a question without an evaluation is left out of
\* the section total as well.
RECURSIVE SectionStatsLeavesOut(_, _)
SectionStatsLeavesOut(questions, evaluations) ==
    IF questions = <<>> THEN [score |-> 0, total |-> 0]
    ELSE LET rest == SectionStatsLeavesOut(Tail(questions), evaluations)
             question == Head(questions)
         IN IF question.question_id \in DOMAIN evaluations
            THEN [score |-> rest.score + evaluations[question.question_id].score.v,
                  total |-> rest.total + question.marks]
            ELSE rest

\* for question in section['questions']: section_total += q_marks;
\* if q_id in evaluations: section_score += evaluations[q_id]['score']
RECURSIVE SectionStats(_, _)
SectionStats(questions, evaluations) ==
    IF questions = <<>> THEN [score |-> 0, total |-> 0]
    ELSE LET rest == SectionStats(Tail(questions), evaluations)
             question == Head(questions)
         IN [score |-> rest.score +
                         (IF question.question_id \in DOMAIN evaluations
                          THEN evaluations[question.question_id].score.v ELSE 0),
             total |-> rest.total + question.marks]

\* section_performance: an entry for every section whose total is above 0;
\* the percentage is the quotient pct_num / pct_den.
SectionPerformance(sections, evaluations) ==
    LET stats(i) == SectionStats(sections[i].questions, evaluations)
        kept == { i \in 1 .. Len(sections) : stats(i).total > 0 }
    IN [name \in { sections[i].section_name : i \in kept } |->
          LET i == CHOOSE j \in kept : sections[j].section_name = name
          IN [score |-> stats(i).score,
              total |-> stats(i).total,
              pct_num |-> stats(i).score * 100,
              pct_den |-> stats(i).total]]

InitAnalysis ==
    /\ test_data = [total_marks |-> 4, sections |-> AnalysisSections,
                    grading_rubric |-> StandardRubric]
    /\ responses_collection = [rid \in ResponseIds |-> Submitted(SheetOf(rid))]
    /\ session = [s \in Sessions |-> IdleSession]
    /\ judge_log = NoCall
    /\ lookup = NoLookup
    /\ cleaning = NoCleaning
    /\ typing = NoTyping
    /\ analysis \in { [NoAnalysis EXCEPT !.evaluations = e] : e \in AnalysisEvaluations }
    /\ take = NoTake
    /\ taken_responses = <<>>
    /\ app = NoApp
    /\ manual = NoManual
    /\ transfer = NoTransfer

AnalyzePerformance ==
    /\ ~analysis.done
    /\ analysis' = [analysis EXCEPT
                        !.done = TRUE,
                        !.section_performance =
                            SectionPerformance(test_data.sections, analysis.evaluations)]
    /\ UNCHANGED <<store, lookup, cleaning, typing, take, taken_responses, app, manual, transfer>>

NextAnalysis == AnalyzePerformance

SpecAnalysis == InitAnalysis /\ [][NextAnalysis]_vars

(***************************************************************************)
(* Take Test page (student): one student, logged in in two browser         *)
(* sessions, and one test.  A step is one run of the page script, or the   *)
(* clock passing the time limit of a session.                              *)
(***************************************************************************)
\* sum(len(section['questions']) for section in test_data['sections'])
total_questions == Len(QuestionsOf(Sections))

\* count_documents({test_id, student_email}) > 0
already_taken == Len(taken_responses) > 0

\* The document insert_one stores: student_responses of the session with its
\* end_time.  session and via are history: which session stored it and
\* through which branch.
StoredResponse(t, via) ==
    [test_id |-> "test", student_email |-> "student", end_time |-> "now",
     answered |-> take[t].answered, session |-> t, via |-> via]

\* "Start Test" (or "Take Test" on the dashboard): offered only while the
\* student has no stored response for the test.
StartTest(t) ==
    /\ take[t].current_test_id = "<none>"
    /\ ~already_taken
    /\ take' = [take EXCEPT ![t] = [NotStarted EXCEPT !.current_test_id = "test",
                                                      !.run = "start"]]
    /\ UNCHANGED <<store, lookup, cleaning, typing, analysis, taken_responses, app, manual, transfer>>

\* The clock: the time limit of the session's attempt has passed.
TimeElapses(t) ==
    /\ take[t].current_test_id = "test"
    /\ ~take[t].test_submitted
    /\ ~take[t].time_up
    /\ take' = [take EXCEPT ![t].time_up = TRUE]
    /\ UNCHANGED <<store, lookup, cleaning, typing, analysis, taken_responses, app, manual, transfer>>

\* The auto-submit branch without its st.rerun(): the run goes on to the form
\* and a pressed "Submit Test" with every question answered stores again.
AutoSubmitFallsThrough(t, pressed, filled) ==
    /\ take[t].current_test_id = "test"
    /\ ~take[t].test_submitted
    /\ take[t].time_up
    /\ filled >= take[t].answered
    /\ take' = [take EXCEPT ![t].test_submitted = TRUE,
                            ![t].end_time = "now",
                            ![t].answered = filled,
                            ![t].run = IF pressed THEN "auto+submit" ELSE "auto"]
    /\ taken_responses' =
          IF pressed /\ filled = total_questions
          THEN taken_responses \o
                  <<StoredResponse(t, "auto"),
                    [StoredResponse(t, "submit") EXCEPT !.answered = filled]>>
          ELSE Append(taken_responses, StoredResponse(t, "auto"))
    /\ UNCHANGED <<store, lookup, cleaning, typing, analysis, app, manual, transfer>>

\* A page run after the time limit with the test not yet submitted:
\* test_submitted, end_time, insert_one, then st.rerun() ends the run before
\* the form is reached: whether "Submit Test" was pressed, and with how many
\* questions filled in, makes no difference to what is stored.
AutoSubmit(t, pressed, filled) ==
    /\ take[t].current_test_id = "test"
    /\ ~take[t].test_submitted
    /\ take[t].time_up
    /\ filled >= take[t].answered
    /\ take' = [take EXCEPT ![t].test_submitted = TRUE,
                            ![t].end_time = "now",
                            ![t].run = IF pressed THEN "auto+submit" ELSE "auto"]
    /\ taken_responses' = Append(taken_responses, StoredResponse(t, "auto"))
    /\ UNCHANGED <<store, lookup, cleaning, typing, analysis, app, manual, transfer>>

\* "Submit Test" pressed within the time limit with filled questions answered
\* (answers are never removed).  With every question answered the response is
\* stored; otherwise the run shows the warning and the "Confirm Submit"
\* button, which sits inside the form and never sets confirm_submit.
SubmitTest(t, filled) ==
    /\ take[t].current_test_id = "test"
    /\ ~take[t].test_submitted
    /\ ~take[t].time_up
    /\ filled >= take[t].answered
    /\ LET now == [take EXCEPT ![t].answered = filled,
                               ![t].end_time = "now",
                               ![t].run = "submit"]
       IN  IF filled < total_questions
           THEN /\ take' = now
                /\ UNCHANGED taken_responses
           ELSE /\ take' = [now EXCEPT ![t].test_submitted = TRUE]
                /\ taken_responses' =
                      Append(taken_responses,
                             [StoredResponse(t, "submit") EXCEPT !.answered = filled])
    /\ UNCHANGED <<store, lookup, cleaning, typing, analysis, app, manual, transfer>>

\* "Take Another Test" after the submission.
TakeAnotherTest(t) ==
    /\ take[t].current_test_id = "test"
    /\ take[t].test_submitted
    /\ take' = [take EXCEPT ![t] = [NotStarted EXCEPT !.run = "another"]]
    /\ UNCHANGED <<store, lookup, cleaning, typing, analysis, taken_responses, app, manual, transfer>>

InitTakeTest ==
    /\ test_data \in TestDatas
    /\ responses_collection = [rid \in ResponseIds |-> Submitted(SheetOf(rid))]
    /\ session = [s \in Sessions |-> IdleSession]
    /\ judge_log = NoCall
    /\ lookup = NoLookup
    /\ cleaning = NoCleaning
    /\ typing = NoTyping
    /\ analysis = NoAnalysis
    /\ take = NoTake
    /\ taken_responses = <<>>
    /\ app = NoApp
    /\ manual = NoManual
    /\ transfer = NoTransfer

NextTakeTest ==
    \/ StartTest("t1")
    \/ StartTest("t2")
    \/ TimeElapses("t1")
    \/ TimeElapses("t2")
    \/ \E pressed \in BOOLEAN, filled \in 0..total_questions :
          AutoSubmit("t1", pressed, filled)
    \/ \E pressed \in BOOLEAN, filled \in 0..total_questions :
          AutoSubmit("t2", pressed, filled)
    \/ \E filled \in 0..total_questions : SubmitTest("t1", filled)
    \/ \E filled \in 0..total_questions : SubmitTest("t2", filled)
    \/ TakeAnotherTest("t1")
    \/ TakeAnotherTest("t2")

SpecTakeTest == InitTakeTest /\ [][NextTakeTest]_vars

(***************************************************************************)
(* The script as a whole: the login gate, the navigation, the page handler *)
(* of the chosen page and the feature blocks at the end of the script.  A  *)
(* step is one run of the script in one browser session.                   *)
(***************************************************************************)
UserTypes == {"teacher", "student"}

\* The pages of the sidebar navigation.
Pages(user_type) ==
    IF user_type = "teacher"
    THEN {"Dashboard", "Input Details", "Generate Test", "View Tests",
          "Evaluate Responses", "Analytics"}
    ELSE {"Dashboard", "Take Test", "View Results"}

\* The feature block at the end of the script whose test of page and
\* user_type holds.
FeatureBlocks(page, user_type) ==
    IF page = "Dashboard" /\ user_type = "teacher" THEN <<"settings">>
    ELSE IF page = "View Results" /\ user_type = "student" THEN <<"certificates">>
    ELSE IF page = "Evaluate Responses" /\ user_type = "teacher" THEN <<"batch operations">>
    ELSE IF page = "Generate Test" /\ user_type = "teacher" THEN <<"import/export">>
    ELSE <<>>

\* The values of the three check boxes of the settings block.
Settings == [created : {TRUE}, enable_ai_analysis : BOOLEAN,
             enable_certificates : BOOLEAN, dark_mode : BOOLEAN]

\* if 'advanced_features' not in st.session_state: ...
DefaultFeatures(features) ==
    IF ~features.created
    THEN [created |-> TRUE, enable_ai_analysis |-> TRUE,
          enable_certificates |-> TRUE, dark_mode |-> FALSE]
    ELSE features

\* A run with nobody logged in.  login_page() draws the two forms; a login
\* with valid credentials sets the session and ends the run by st.rerun().
\* In every other case (no form sent, credentials refused, a registration)
\* login_page() returns and the script goes on past the else branch to the
\* end of the script: advanced_features is created, then the first feature
\* block evaluates page, a name only the else branch assigns.
RunLoggedOut(form, user_type) ==
    /\ ~app.logged_in
    /\ IF form = "login"
       THEN app' = [app EXCEPT !.logged_in = TRUE,
                               !.user_type = user_type,
                               !.run = "logged out",
                               !.handlers = <<"login_page">>,
                               !.error = "<none>"]
       ELSE app' = [app EXCEPT !.advanced_features = DefaultFeatures(@),
                               !.run = "logged out",
                               !.handlers = <<"login_page">>,
                               !.error = "NameError: name 'page' is not defined"]
    /\ UNCHANGED <<store, lookup, cleaning, typing, analysis, take, taken_responses, manual, transfer>>

\* "Logout" in the sidebar: test_data is reset and the run ends by st.rerun().
Logout ==
    /\ app.logged_in
    /\ app' = [app EXCEPT !.logged_in = FALSE,
                          !.user_type = "<none>",
                          !.run = "logged in",
                          !.handlers = <<>>,
                          !.error = "<none>"]
    /\ UNCHANGED <<store, lookup, cleaning, typing, analysis, take, taken_responses, manual, transfer>>

\* A run with a user logged in and a page chosen in the sidebar.  The page
\* handler either reaches its end ("through"), ends the run by st.rerun()
\* or raises; only in the first case does the script reach the feature
\* blocks, where the settings block stores the values of its check boxes.
RunLoggedIn(page, outcome, settings) ==
    /\ app.logged_in
    /\ page \in Pages(app.user_type)
    /\ IF outcome = "through"
       THEN app' = [app EXCEPT
                      !.advanced_features =
                          IF page = "Dashboard" /\ app.user_type = "teacher"
                          THEN settings ELSE DefaultFeatures(@),
                      !.run = "logged in",
                      !.handlers = <<page>> \o FeatureBlocks(page, app.user_type),
                      !.error = "<none>"]
       ELSE app' = [app EXCEPT
                      !.run = "logged in",
                      !.handlers = <<page>>,
                      !.error = IF outcome = "raised" THEN "raised by the page handler"
                                ELSE "<none>"]
    /\ UNCHANGED <<store, lookup, cleaning, typing, analysis, take, taken_responses, manual, transfer>>

InitApp ==
    /\ test_data \in TestDatas
    /\ responses_collection = [rid \in ResponseIds |-> Submitted(SheetOf(rid))]
    /\ session = [s \in Sessions |-> IdleSession]
    /\ judge_log = NoCall
    /\ lookup = NoLookup
    /\ cleaning = NoCleaning
    /\ typing = NoTyping
    /\ analysis = NoAnalysis
    /\ take = NoTake
    /\ taken_responses = <<>>
    /\ app = NoApp
    /\ manual = NoManual
    /\ transfer = NoTransfer

NextApp ==
    \/ \E form \in {"none", "login", "login refused", "register"},
          user_type \in UserTypes : RunLoggedOut(form, user_type)
    \/ Logout
    \/ \E page \in Pages("teacher") \cup Pages("student"),
          outcome \in {"through", "rerun", "raised"},
          settings \in Settings : RunLoggedIn(page, outcome, settings)

SpecApp == InitApp /\ [][NextApp]_vars

(***************************************************************************)
(* Manual evaluation of the teacher-graded variant (app4.py, Evaluate      *)
(* Responses page): the first unevaluated response document of the test,   *)
(* the run that draws the evaluation form and the run that handles         *)
(* "Submit Evaluation".  The test has three questions in two sections.     *)
(***************************************************************************)
ManualQuestions == SeqToSet(QuestionsOf(AnalysisSections))

ManualQuestionIds == {q.question_id : q \in ManualQuestions}

ManualMarks(question_id) ==
    (CHOOSE q \in ManualQuestions : q.question_id = question_id).marks

\* An entry of the responses map as the Take Test page creates it.
ManualEntry(answer) ==
    [response |-> answer, evaluated |-> FALSE, score |-> NoneV, feedback |-> "<unset>"]

\* The documents the query {"test_id": ..., "evaluated": False} may find:
\* for each question an empty answer, an answer, or no entry.
ManualDocuments ==
    { [responses |-> e, evaluated |-> FALSE, score |-> NoneV] :
        e \in UNION { [qs -> {ManualEntry(""), ManualEntry("answer")}]
                        : qs \in SUBSET ManualQuestionIds } }

\* What st.number_input lets the teacher enter: min_value 0, max_value the
\* marks of the question.
MarkSheets ==
    { m \in [ManualQuestionIds -> 0..MaxJudgeMarks] :
        \A q \in ManualQuestionIds : m[q] <= ManualMarks(q) }

\* obtained_marks += marks, over the questions in the order of the form.
RECURSIVE ObtainedMarks(_, _)
ObtainedMarks(questions, marks) ==
    IF questions = <<>> THEN 0
    ELSE marks[Head(questions).question_id] + ObtainedMarks(Tail(questions), marks)

\* The loop over the questions of the form raises KeyError at
\* response_to_evaluate['responses'][question_id]['score'] = marks for a
\* question that has no entry: .get(question_id, {}) only covers the reads.
FormRaises(document) == ManualQuestionIds \ DOMAIN document.responses # {}

\* The run that draws the form for the first unevaluated response.
OpenEvaluation ==
    /\ manual.pc = "list"
    /\ ~manual.document.evaluated
    /\ manual' = [manual EXCEPT
                     !.pc = IF FormRaises(manual.document) THEN "KeyError" ELSE "form"]
    /\ UNCHANGED <<store, lookup, cleaning, typing, analysis, take, taken_responses, app, transfer>>

\* The run after "Submit Evaluation" with the marks entered: the loop sets
\* score, feedback and evaluated of every entry, then the document gets its
\* score and evaluated and is written by update_one({"$set": ...}).
SubmitEvaluation(marks) ==
    /\ manual.pc = "form"
    /\ IF FormRaises(manual.document)
       THEN manual' = [manual EXCEPT !.pc = "KeyError"]
       ELSE manual' =
              [document |->
                  [responses |->
                      [q \in DOMAIN manual.document.responses |->
                          IF q \in ManualQuestionIds
                          THEN [manual.document.responses[q] EXCEPT
                                   !.score = NumV(marks[q]),
                                   !.feedback = "",
                                   !.evaluated = TRUE]
                          ELSE manual.document.responses[q]],
                   evaluated |-> TRUE,
                   score |-> NumV(ObtainedMarks(QuestionsOf(AnalysisSections), marks))],
               pc |-> "submitted",
               marks |-> marks]
    /\ UNCHANGED <<store, lookup, cleaning, typing, analysis, take, taken_responses, app, transfer>>

InitManual ==
    /\ test_data = [total_marks |-> 4, sections |-> AnalysisSections,
                    grading_rubric |-> StandardRubric]
    /\ responses_collection = [rid \in ResponseIds |-> Submitted(SheetOf(rid))]
    /\ session = [s \in Sessions |-> IdleSession]
    /\ judge_log = NoCall
    /\ lookup = NoLookup
    /\ cleaning = NoCleaning
    /\ typing = NoTyping
    /\ analysis = NoAnalysis
    /\ take = NoTake
    /\ taken_responses = <<>>
    /\ app = NoApp
    /\ manual \in { [NoManual EXCEPT !.document = d] : d \in ManualDocuments }
    /\ transfer = NoTransfer

NextManual ==
    \/ OpenEvaluation
    \/ \E marks \in MarkSheets : SubmitEvaluation(marks)

SpecManual == InitManual /\ [][NextManual]_vars

(***************************************************************************)
(* export_test_code and import_test_from_code.                             *)
(***************************************************************************)
required_fields == <<"test_title", "total_duration", "total_marks", "sections">>

\* The keys of a dict and the value of one of them.
Keys(dict) == {p.name : p \in dict.members}

Member(dict, name) == (CHOOSE p \in dict.members : p.name = name).value

\* json.dumps
RECURSIVE Dumps(_)
Dumps(value) ==
    CASE value.k \in {"list", "tuple"} ->
            [NotJsonText EXCEPT !.j = "array",
                            !.items = [i \in DOMAIN value.items |-> Dumps(value.items[i])]]
      [] value.k = "dict" ->
            [NotJsonText EXCEPT !.j = "object",
                            !.members = {[name |-> p.name, value |-> Dumps(p.value)]
                                           : p \in value.members}]
      [] value.k = "str" -> [NotJsonText EXCEPT !.j = "string", !.words = value.words]
      [] value.k = "int" -> [NotJsonText EXCEPT !.j = "number", !.n = value.n]
      [] value.k = "float" ->
            [NotJsonText EXCEPT !.j = "number", !.n = value.n, !.point = TRUE]
      [] OTHER -> [NotJsonText EXCEPT !.j = "null"]

\* json.loads of a JSON text
RECURSIVE Loads(_)
Loads(text) ==
    CASE text.j = "array" ->
            PyList([i \in DOMAIN text.items |-> Loads(text.items[i])])
      [] text.j = "object" ->
            PyDict({[name |-> p.name, value |-> Loads(p.value)] : p \in text.members})
      [] text.j = "string" -> PyStr(text.words)
      [] text.j = "number" -> IF text.point THEN PyFloat(text.n) ELSE PyInt(text.n)
      [] OTHER -> PyNone

\* base64.b64encode(test_json.encode()).decode()
B64Encode(text) == [padded |-> TRUE, utf8 |-> TRUE, text |-> text]

\* test_code[:10] + "...": ten base64 characters, which is not a whole
\* number of groups of four.
Preview(code) == [code EXCEPT !.padded = FALSE]

export_test_code(test) ==
    LET shareable_test ==
            PyDict({[name |-> m, value |-> Member(test, m)]
                      : m \in SeqToSet(required_fields)})
        test_code == B64Encode(Dumps(shareable_test))
    IN  [code |-> test_code, preview |-> Preview(test_code)]

\* field in test_data: a key of a dict, an item of a list, a part of a str.
FieldIn(field, loaded) ==
    CASE loaded.k = "dict" -> field \in Keys(loaded)
      [] loaded.k = "list" ->
            \E i \in DOMAIN loaded.items : loaded.items[i] = PyStr(<<field>>)
      [] OTHER -> \E i \in DOMAIN loaded.words : loaded.words[i] = field

import_test_from_code(test_code) ==
    IF \/ ~test_code.padded                 \* binascii.Error
       \/ ~test_code.utf8                   \* UnicodeDecodeError
       \/ test_code.text.j = "invalid"      \* json.JSONDecodeError
    THEN [test |-> PyNone, message |-> "Error importing test"]
    ELSE LET loaded == Loads(test_code.text)
         IN  IF loaded.k \notin {"dict", "list", "str"}
             THEN \* TypeError: argument of type ... is not iterable
                  [test |-> PyNone, message |-> "Error importing test"]
             ELSE IF \E i \in DOMAIN required_fields :
                        ~FieldIn(required_fields[i], loaded)
             THEN [test |-> PyNone, message |-> "Invalid test format"]
             ELSE [test |-> loaded, message |-> "Test imported successfully"]

\* The tests of the session (generated_test, the result of json.loads): the
\* four fields, with or without a grading_rubric.
GeneratedTests ==
    { PyDict({[name |-> "test_title", value |-> title],
              [name |-> "total_duration", value |-> duration],
              [name |-> "total_marks", value |-> marks],
              [name |-> "sections", value |-> sections]} \cup extra) :
        title \in {PyStr(<<"Campus", "Test">>), PyStr(<<>>)},
        duration \in {PyInt(60), PyFloat(90)},
        marks \in {PyInt(0), PyInt(2)},
        sections \in {PyList(<<>>),
                      PyList(<<PyDict({[name |-> "section_name",
                                        value |-> PyStr(<<"Aptitude">>)],
                                       [name |-> "questions",
                                        value |-> PyList(<<>>)]})>>)},
        extra \in {{}, {[name |-> "grading_rubric", value |-> PyDict({})]}} }

\* What a teacher may paste into "Import Test Code" besides an exported
\* code: codes of JSON documents that are no test, and codes that do not
\* decode.
PastedValues ==
    { PyDict({[name |-> m, value |-> PyInt(1)] : m \in names})
        : names \in SUBSET SeqToSet(required_fields) }
    \cup { PyList(<<>>), PyList(<<PyStr(<<"test_title">>)>>),
           PyList([i \in DOMAIN required_fields |-> PyStr(<<required_fields[i]>>)]),
           PyStr(<<"x">>), PyStr(required_fields), PyInt(5), PyNone }

PastedCodes ==
    { B64Encode(Dumps(value)) : value \in PastedValues }
    \cup { Preview(B64Encode(Dumps(PyInt(5)))),
           [padded |-> TRUE, utf8 |-> FALSE, text |-> NotJsonText],
           [padded |-> TRUE, utf8 |-> TRUE, text |-> NotJsonText] }

\* The export of the sidebar: the code of the generated test.
ExportTest ==
    /\ transfer.pc = "start"
    /\ transfer' = [transfer EXCEPT !.code = export_test_code(transfer.test).code,
                                    !.origin = "exported",
                                    !.pc = "code"]
    /\ UNCHANGED <<store, lookup, cleaning, typing, analysis, take, taken_responses, app, manual>>

\* A code typed or pasted into "Import Test Code".
PasteCode(test_code) ==
    /\ transfer.pc = "start"
    /\ transfer' = [transfer EXCEPT !.code = test_code,
                                    !.origin = "pasted",
                                    !.pc = "code"]
    /\ UNCHANGED <<store, lookup, cleaning, typing, analysis, take, taken_responses, app, manual>>

\* "Import Test": import_test_from_code applied to the code.
ImportTest ==
    /\ transfer.pc = "code"
    /\ LET result == import_test_from_code(transfer.code)
       IN transfer' = [transfer EXCEPT !.imported = result.test,
                                       !.message = result.message,
                                       !.pc = "imported"]
    /\ UNCHANGED <<store, lookup, cleaning, typing, analysis, take, taken_responses, app, manual>>

InitTransfer ==
    /\ test_data \in TestDatas
    /\ responses_collection = [rid \in ResponseIds |-> Submitted(SheetOf(rid))]
    /\ session = [s \in Sessions |-> IdleSession]
    /\ judge_log = NoCall
    /\ lookup = NoLookup
    /\ cleaning = NoCleaning
    /\ typing = NoTyping
    /\ analysis = NoAnalysis
    /\ take = NoTake
    /\ taken_responses = <<>>
    /\ app = NoApp
    /\ manual = NoManual
    /\ transfer \in { [NoTransfer EXCEPT !.test = t] : t \in GeneratedTests }

NextTransfer ==
    \/ ExportTest
    \/ \E test_code \in PastedCodes : PasteCode(test_code)
    \/ ImportTest

SpecTransfer == InitTransfer /\ [][NextTransfer]_vars

(***************************************************************************)
(* Properties.                                                             *)
(***************************************************************************)
TestQuestions == SeqToSet(QuestionsOf(test_data.sections))

\* The responses stored as evaluated.
EvaluatedIds == {rid \in ResponseIds : responses_collection[rid].evaluated}

\* The response of the latest evaluate_with_llm call.
LoggedDoc == responses_collection[judge_log.rid]

\* A reply that follows the Judge protocol: cleaned and parsed, it is an
\* object with a numeric marks member and a feedback string.
FollowsProtocol(reply) ==
    /\ ~reply.raises
    /\ LET parsed == JsonLoads(ExtractJson(reply.text))
       IN parsed.k = "obj" /\ parsed.mt = "num" /\ parsed.ft = "str"

\* The marks member of a reply that follows the protocol.
MarksOf(reply) == JsonLoads(ExtractJson(reply.text)).mv

\* C1 (as claimed, for the replies that follow the protocol with marks in
\* 0 .. question.marks): an answered
\* mcq question scores its marks when the response text equals
\* correct_answer exactly and 0 for any other text, whatever the Judge
\* replies.
C1_McqExactMatch ==
    (judge_log.rid # 0 /\ ~judge_log.raised) =>
        \A question \in TestQuestions :
            LET qid == question.question_id
            IN (/\ PromptKind(question) = "mcq"
                /\ qid \in Answered(LoggedDoc)
                /\ FollowsProtocol(judge_log.judge[qid])
                /\ MarksOf(judge_log.judge[qid]) \in 0 .. question.marks) =>
                  /\ qid \in DOMAIN LoggedDoc.evaluations
                  /\ LoggedDoc.evaluations[qid].score =
                        NumV(IF LoggedDoc.responses[qid] = question.correct_answer
                             THEN question.marks ELSE 0)

C3_JudgeFailureIsolated ==
    (judge_log.rid # 0 /\ test_data.total_marks # 0) =>
        \A qid \in Answered(LoggedDoc) :
            ~FollowsProtocol(judge_log.judge[qid]) =>
                /\ LoggedDoc.evaluated
                /\ DOMAIN LoggedDoc.evaluations = Answered(LoggedDoc)
                /\ LoggedDoc.evaluations[qid].score = NumV(0)
                /\ ~LoggedDoc.evaluations[qid].evaluated

\* C4 (as claimed): every stored numeric score lies in 0 .. marks of its
\* question.
C4_ScoreClamped ==
    \A rid \in EvaluatedIds : \A question \in TestQuestions :
        LET doc == responses_collection[rid]
            qid == question.question_id
        IN (qid \in DOMAIN doc.evaluations /\ doc.evaluations[qid].score.t = "num") =>
              /\ 0 <= doc.evaluations[qid].score.v
              /\ doc.evaluations[qid].score.v <= question.marks

\* What the claims about the rubric mean by a band's interval, read off
\* the range string directly: "<low>-<high>", each number possibly followed
\* by "%".
NoPercentSigns(range_str) == SelectSeq(range_str, LAMBDA tok : tok # PCT)

WellFormedRange(range_str) ==
    LET r == NoPercentSigns(range_str)
    IN Len(r) = 3 /\ r[1].k = "num" /\ r[2] = DASH /\ r[3].k = "num"

\* The band's interval [low, high] holds the percentage num / den.
IntervalHolds(band, num, den) ==
    /\ WellFormedRange(band.score_range)
    /\ NoPercentSigns(band.score_range)[1].v * den <= num
    /\ num <= NoPercentSigns(band.score_range)[3].v * den

LookupDone == lookup.overall_feedback # "<unset>"

\* C5: the rubric lookup returns the description of a band whose interval
\* [low, high] holds the percentage, both ends included, whenever there is
\* such a band, and nothing ("") when no band holds it or the rubric is
\* empty.
C5_BandSelection ==
    LookupDone =>
        LET holding == { i \in 1 .. Len(lookup.rubric) :
                           IntervalHolds(lookup.rubric[i], lookup.num, lookup.den) }
        IN /\ holding = {} => lookup.overall_feedback = ""
           /\ holding # {} =>
                \E i \in holding :
                    lookup.overall_feedback = lookup.rubric[i].description

\* C5 witness: 40 percent, on the lower boundary of "40-69", has been
\* resolved to that band, below a band that does not hold it.
C5_Witness ==
    /\ LookupDone
    /\ lookup.num = 80
    /\ Len(lookup.rubric) = 2
    /\ lookup.rubric[1].score_range = <<RNum(0), DASH, RNum(39)>>
    /\ lookup.rubric[2].score_range = <<RNum(40), DASH, RNum(69)>>
    /\ lookup.overall_feedback = lookup.rubric[2].description

\* C6 (as claimed): once a response is stored as evaluated, no evaluation
\* run changes its evaluations or its score again.
C6_NoReevaluation ==
    [][\A rid \in ResponseIds :
          responses_collection[rid].evaluated =>
              /\ responses_collection'[rid].evaluations =
                    responses_collection[rid].evaluations
              /\ responses_collection'[rid].score = responses_collection[rid].score]_vars

\* C7 (as claimed, for a test whose total_marks is not 0): a run that has
\* ended, from the sidebar or from the button, has handled every response
\* it selected, and its successes and failures add up to their number.
C7_BatchHandlesAll ==
    \A s \in Sessions :
        (session[s].pc \in {"done", "aborted"} /\ test_data.total_marks # 0) =>
            /\ session[s].todo = <<>>
            /\ session[s].success_count + session[s].error_count = session[s].n

CleaningDone ==
    /\ cleaning.plain # Pending
    /\ cleaning.json # Pending
    /\ cleaning.bare # Pending
    /\ cleaning.tagged # Pending

C9_ZeroTotalMarksEvaluates ==
    (/\ judge_log.rid # 0
     /\ test_data.total_marks = 0
     /\ \A qid \in Answered(LoggedDoc) :
           EvaluateReply(judge_log.judge[qid]).score.t = "num") =>
        /\ ~judge_log.raised
        /\ LoggedDoc.evaluated

\* C10: a band whose score_range is malformed (no "-", a part that is no
\* number, more than two parts) is passed over: the lookup still returns
\* the description of the first well-formed band that holds the percentage
\* when only malformed bands come before it, and "" when no well-formed
\* band holds the percentage.
C10_MalformedRangeSkipped ==
    LookupDone =>
        /\ lookup.overall_feedback # "<exception>"
        /\ \A i \in 1 .. Len(lookup.rubric) :
              (/\ IntervalHolds(lookup.rubric[i], lookup.num, lookup.den)
               /\ \A j \in 1 .. (i - 1) :
                     ~WellFormedRange(lookup.rubric[j].score_range)) =>
                  lookup.overall_feedback = lookup.rubric[i].description
        /\ (\A i \in 1 .. Len(lookup.rubric) :
               ~IntervalHolds(lookup.rubric[i], lookup.num, lookup.den)) =>
              lookup.overall_feedback = ""

\* C10 witness: a malformed band ("0-50-100") came first and the lookup
\* went on to the well-formed band after it, which holds the percentage.
C10_Witness ==
    /\ LookupDone
    /\ Len(lookup.rubric) = 2
    /\ lookup.rubric[1].score_range = <<RNum(0), DASH, RNum(50), DASH, RNum(100)>>
    /\ IntervalHolds(lookup.rubric[2], lookup.num, lookup.den)
    /\ lookup.overall_feedback = lookup.rubric[2].description

\* The bands of the looked-up rubric whose interval holds the percentage.
HoldingBands ==
    { i \in 1 .. Len(lookup.rubric) :
        IntervalHolds(lookup.rubric[i], lookup.num, lookup.den) }

\* C11: when the intervals of two or more bands hold the percentage, the
\* lookup returns the description of the one that comes first in the
\* rubric's iteration order; no later band replaces it.
C11_FirstOverlappingBandWins ==
    (LookupDone /\ Cardinality(HoldingBands) >= 2) =>
        LET first == CHOOSE i \in HoldingBands : \A j \in HoldingBands : i <= j
        IN lookup.overall_feedback = lookup.rubric[first].description

\* C11 witness: 55 percent lies in "30-80" and in "40-69"; "30-80" comes
\* first and its description, not that of "40-69", has been returned.
C11_Witness ==
    /\ LookupDone
    /\ lookup.num = 110
    /\ Len(lookup.rubric) = 2
    /\ lookup.rubric[1].score_range = <<RNum(30), DASH, RNum(80)>>
    /\ lookup.rubric[2].score_range = <<RNum(40), DASH, RNum(69)>>
    /\ lookup.overall_feedback = lookup.rubric[1].description
    /\ lookup.overall_feedback # lookup.rubric[2].description

\* C12: a response stored as evaluated holds one result for each question
\* that evaluate_with_llm evaluated (each answered question of the test),
\* every result with a numeric score, and its score is the sum of these
\* scores; a response that is not stored as evaluated holds no evaluations
\* and no score; and the response of an evaluation that went through is
\* stored as evaluated, with the results of that very call.
C12_ScoreIsSumOfResults ==
    /\ \A rid \in ResponseIds :
          LET doc == responses_collection[rid]
          IN IF doc.evaluated
             THEN /\ DOMAIN doc.evaluations =
                        {q.question_id : q \in TestQuestions} \cap Answered(doc)
                  /\ ~SumRaises(doc.evaluations)
                  /\ doc.score.t = "num"
                  /\ doc.score.v = SumOver(doc.evaluations, DOMAIN doc.evaluations)
             ELSE doc.evaluations = <<>> /\ doc.score = NoneV
    /\ (judge_log.rid # 0 /\ ~judge_log.raised) =>
          /\ LoggedDoc.evaluated
          /\ LoggedDoc.evaluations =
                evaluate_with_llm(LoggedDoc, test_data, judge_log.judge)

\* C12 witness: the response with two answers has been evaluated by the
\* sidebar batch, the Judge giving 1 and 2 marks, and is stored with score 3.
C12_Witness ==
    /\ session["s1"].kind = "batch"
    /\ responses_collection[1].evaluated
    /\ DOMAIN responses_collection[1].evaluations = {"q1", "q2"}
    /\ responses_collection[1].evaluations["q1"].score = NumV(1)
    /\ responses_collection[1].evaluations["q2"].score = NumV(2)
    /\ responses_collection[1].score = NumV(3)

\* The question ids of the test definition.
TestQuestionIds == {q.question_id : q \in TestQuestions}

\* C13 (as claimed): a response whose question ids have nothing in common
\* with those of the test is never stored as evaluated, and a batch run
\* that handled it counted a failure for it.
C13_NoOverlapRejected ==
    /\ \A rid \in ResponseIds :
          Answered(responses_collection[rid]) \cap TestQuestionIds = {} =>
              ~responses_collection[rid].evaluated
    /\ (/\ judge_log.rid # 0
        /\ Answered(LoggedDoc) \cap TestQuestionIds = {}
        /\ session["s1"].kind = "batch") =>
          session["s1"].error_count >= 1

\* A reply that parses as an object whose marks member is not a number.
NonNumericMarks(reply) ==
    /\ ~reply.raises
    /\ LET parsed == JsonLoads(ExtractJson(reply.text))
       IN parsed.k = "obj" /\ parsed.mt = "str" /\ parsed.ft = "str"

\* C14 (as claimed): when the Judge's reply for a question parses but its
\* marks are not a number, the summation of the caller does not fail and
\* the question is stored with the failure placeholder (score 0, evaluated
\* false).
C14_NonNumericMarksRejected ==
    (judge_log.rid # 0 /\ test_data.total_marks # 0) =>
        \A qid \in Answered(LoggedDoc) :
            NonNumericMarks(judge_log.judge[qid]) =>
                /\ ~judge_log.raised
                /\ qid \in DOMAIN LoggedDoc.evaluations
                /\ LoggedDoc.evaluations[qid] = FailedEvaluation

\* A reply body that parses as an object without a marks member or
\* without a feedback member.
LacksMember(body) ==
    LET parsed == JsonLoads(ExtractJson(body))
    IN parsed.k = "obj" /\ (parsed.mt = "none" \/ parsed.ft = "none")

\* C15 (as claimed): a reply that parses as an object but lacks the marks
\* member or the feedback member gives the failure placeholder (score 0,
\* evaluated false) in the final.py evaluator and in the duumy.py
\* evaluator alike; neither builds a result with evaluated true from
\* default values.
C15_MissingMemberIsFailure ==
    LacksMember(cleaning.body) =>
        /\ cleaning.plain \in {Pending, FailedEvaluation}
        /\ cleaning.duumy \in {Pending, FailedEvaluation}

C17_EarlierResultsKept ==
    [][/\ (\/ session'["s1"].error_count > session["s1"].error_count
           \/ (session'["s1"].pc = "aborted" /\ session["s1"].pc = "loop")) =>
              responses_collection' = responses_collection
       /\ \A rid \in ResponseIds :
              responses_collection[rid].evaluated =>
                  responses_collection'[rid] = responses_collection[rid]]_vars

\* C17 witness: a batch run stored the first response and then failed on
\* the second; the first is still stored as evaluated with its score.
C17_Witness ==
    /\ session["s1"].kind = "batch"
    /\ session["s1"].pc = "done"
    /\ session["s1"].success_count = 1
    /\ session["s1"].error_count = 1
    /\ judge_log.rid = 2
    /\ judge_log.raised
    /\ responses_collection[1].evaluated
    /\ responses_collection[1].score.t = "num"
    /\ ~responses_collection[2].evaluated

\* C18 (as claimed): when the runs of two sessions interleave, a run stores
\* an evaluation only for a response that no run has stored one for yet,
\* so that no response is written twice.
C18_NoDoubleWrite ==
    [][\A s \in Sessions :
          (/\ session[s].pc = "loop"
           /\ session'[s] # session[s]
           /\ ~judge_log'.raised) =>
              ~responses_collection[Head(session[s].todo)].evaluated]_vars

\* C19 (as claimed): a run that waits for a Judge call that does not come
\* back gets out of the wait (the call ending as the failure placeholder
\* of its question) and goes on.
C19_UnresponsiveJudgeTimesOut ==
    (session["s1"].pc = "waiting") ~> (session["s1"].pc # "waiting")

\* C20: when every Judge call returns or raises, a batch run that has
\* started reaches its end; at its end it has handled every response it
\* selected, each once, and its success and failure counts add up to
\* their number.
C20_BatchRunFinishes ==
    /\ Running("s1", "batch") ~>
          (session["s1"].kind = "batch" /\ session["s1"].pc = "done")
    /\ []((session["s1"].kind = "batch" /\ session["s1"].pc = "done") =>
            /\ session["s1"].todo = <<>>
            /\ session["s1"].success_count + session["s1"].error_count
                  = session["s1"].n)
    /\ []((session["s1"].kind = "batch" /\ session["s1"].pc = "loop") =>
            session["s1"].success_count + session["s1"].error_count
              + Len(session["s1"].todo) = session["s1"].n)

\* C20 witness: a batch run over all the responses of the test has ended
\* with every one of them counted as succeeded.
C20_Witness ==
    /\ session["s1"].kind = "batch"
    /\ session["s1"].pc = "done"
    /\ session["s1"].n = NumResponses
    /\ session["s1"].success_count = NumResponses
    /\ session["s1"].error_count = 0
    /\ \A rid \in ResponseIds : responses_collection[rid].evaluated

\* The response a running session is handling, 0 when it handles none.
HandledBy(s) == IF session[s].pc = "loop" THEN Head(session[s].todo) ELSE 0

\* C21 (as claimed): a step changes nothing of the test definition and, of
\* the stored responses, only the evaluations, the score, the overall
\* feedback and the evaluated flag of the response being evaluated.
C21_OnlyFourFieldsChange ==
    [][/\ test_data' = test_data
       /\ \A rid \in ResponseIds :
              LET doc == responses_collection[rid]
                  new == responses_collection'[rid]
              IN /\ rid # HandledBy("s1") => new = doc
                 /\ new = [doc EXCEPT !.evaluations = new.evaluations,
                                      !.score = new.score,
                                      !.overall_feedback = new.overall_feedback,
                                      !.evaluated = new.evaluated]]_vars

\* C21 (amended): a step changes nothing of the test definition and, of
\* the stored responses, only the response being evaluated, and of it only
\* the evaluations, the score, the overall feedback, the evaluated flag
\* and the evaluation stamps evaluated_at and evaluated_by; the submitted
\* answers, the student's identity and end_time stay as they were.
C21_OnlyEvaluationFieldsChange ==
    [][/\ test_data' = test_data
       /\ \A rid \in ResponseIds :
              LET doc == responses_collection[rid]
                  new == responses_collection'[rid]
              IN /\ rid # HandledBy("s1") => new = doc
                 /\ new.responses = doc.responses
                 /\ new.student_email = doc.student_email
                 /\ new.end_time = doc.end_time
                 /\ new = [doc EXCEPT !.evaluations = new.evaluations,
                                      !.score = new.score,
                                      !.overall_feedback = new.overall_feedback,
                                      !.evaluated = new.evaluated,
                                      !.evaluated_at = new.evaluated_at,
                                      !.evaluated_by = new.evaluated_by]]_vars

\* C21 witness: the button loop has evaluated and stored the second
\* response, with its answers as submitted, while the first response is
\* still as it was submitted.
C21_Witness ==
    /\ session["s1"].kind = "button"
    /\ responses_collection[2].evaluated
    /\ responses_collection[2].evaluated_by = "teacher"
    /\ responses_collection[2].responses = SheetOf(2)
    /\ responses_collection[1] = Submitted(SheetOf(1))

\* C22 (as claimed): a run that evaluates a response again, its evaluated
\* flag having been cleared, leaves every sub-result that had evaluated
\* true as it was; only the sub-results with evaluated false may change.
C22_SuccessfulSubResultsKept ==
    [][\A rid \in ResponseIds :
          LET doc == responses_collection[rid]
              new == responses_collection'[rid]
          IN (new # doc /\ new.evaluated) =>
                \A q \in DOMAIN doc.evaluations :
                    doc.evaluations[q].evaluated =>
                        /\ q \in DOMAIN new.evaluations
                        /\ new.evaluations[q] = doc.evaluations[q]]_vars

\* A type string spells the word, in whatever casing.
Spells(question_type, word) ==
    /\ Len(question_type) = Len(word)
    /\ \A i \in 1 .. Len(word) : question_type[i].c = word[i]

\* C23: a question whose type spells "mcq" in any casing takes the mcq
\* branch, one whose type spells "coding" in any casing takes the coding
\* branch, every other type string takes the free-form branch, and in each
\* case the question gets a result (that of the Judge's reply, or the
\* failure placeholder when the Judge raised).
C23_TypeMatchedIgnoringCase ==
    typing.kind # "<unset>" =>
        /\ typing.kind =
              (IF Spells(typing.question_type, <<"m", "c", "q">>) THEN "mcq"
               ELSE IF Spells(typing.question_type, <<"c", "o", "d", "i", "n", "g">>)
                    THEN "coding"
                    ELSE "other")
        /\ typing.result # Pending
        /\ typing.result.score.t = "num"
        /\ typing.result.evaluated \/ typing.result = FailedEvaluation

\* C23 witness: "Mcq" has taken the mcq branch and has been given the
\* marks of the Judge's reply.
C23_Witness ==
    /\ typing.question_type = <<Up("m"), Lo("c"), Lo("q")>>
    /\ typing.kind = "mcq"
    /\ typing.result.evaluated
    /\ typing.result.score = NumV(1)

\* The sum of f over a finite set.
RECURSIVE SumOf(_, _)
SumOf(f(_), set) ==
    IF set = {} THEN 0
    ELSE LET x == CHOOSE y \in set : TRUE IN f(x) + SumOf(f, set \ {x})

\* C24: in the statistics of every section that has questions, the total
\* is the sum of the marks of all the questions of the section, evaluated
\* or not, and the score is the sum of the scores of the evaluated ones: a
\* question without an evaluation adds 0 to the score and its full marks
\* to the total, and the percentage is score / total.
C24_UnevaluatedCountsAsZero ==
    analysis.done =>
        \A i \in 1 .. Len(test_data.sections) :
            LET section == test_data.sections[i]
                positions == 1 .. Len(section.questions)
                marksAt(k) == section.questions[k].marks
                scoreAt(k) ==
                    IF section.questions[k].question_id \in DOMAIN analysis.evaluations
                    THEN analysis.evaluations[section.questions[k].question_id].score.v
                    ELSE 0
            IN positions # {} =>
                  /\ section.section_name \in DOMAIN analysis.section_performance
                  /\ LET p == analysis.section_performance[section.section_name]
                     IN /\ p.total = SumOf(marksAt, positions)
                        /\ p.score = SumOf(scoreAt, positions)
                        /\ p.pct_num = p.score * 100
                        /\ p.pct_den = p.total

\* C24 witness: q1 has an evaluation with the score 1 and q3, of the same
\* section, has none; the section stands at 1 out of 3.
C24_Witness ==
    /\ analysis.done
    /\ DOMAIN analysis.evaluations = {"q1"}
    /\ analysis.evaluations["q1"].score = NumV(1)
    /\ analysis.section_performance["Aptitude"].score = 1
    /\ analysis.section_performance["Aptitude"].total = 3

\* The responses stored by session t.
StoredBy(t) == { i \in 1..Len(taken_responses) : taken_responses[i].session = t }

\* The run of session t that finds the time limit passed and the test not
\* yet submitted.
TimeUpUnsubmitted(t) ==
    /\ take[t].current_test_id = "test"
    /\ ~take[t].test_submitted
    /\ take[t].time_up

\* C25: at most one response is ever stored per test and student email,
\* whatever the student does, in one session or in two.
C25_OneResponsePerStudent == Len(taken_responses) <= 1

\* C26: the page run that finds the time limit passed and the test not yet
\* submitted stores the response exactly once, with end_time set, and sets
\* test_submitted, also when "Submit Test" was pressed in that run.
C26_AutoSubmitStoresOnce ==
    [][\A t \in StudentSessions :
          (TimeUpUnsubmitted(t) /\ take'[t] # take[t]) =>
              /\ Len(taken_responses') = Len(taken_responses) + 1
              /\ SubSeq(taken_responses', 1, Len(taken_responses)) = taken_responses
              /\ taken_responses'[Len(taken_responses')].session = t
              /\ taken_responses'[Len(taken_responses')].end_time = "now"
              /\ take'[t].test_submitted]_vars

C26_Witness ==
    \E t \in StudentSessions :
        /\ take[t].run = "auto+submit"
        /\ take[t].test_submitted
        /\ Cardinality(StoredBy(t)) = 1
        /\ \A i \in StoredBy(t) : taken_responses[i].via = "auto"

\* A step of session s is a call of batch_evaluate_responses.
BatchCalled(s) ==
    /\ session[s].pc \notin {"loop", "waiting"}
    /\ session'[s].kind = "batch"
    /\ session'[s].test_id # "<none>"
    /\ session'[s].success_count + session'[s].error_count = 0

\* C27: a call of batch_evaluate_responses with an id that has no test
\* record, or when no response is unevaluated, returns (False, message) and
\* leaves the response store as it is; a call never selects a response
\* that is marked evaluated.
C27_BatchEarlyReturns ==
    [][\A s \in Sessions :
          BatchCalled(s) =>
              /\ (\/ session'[s].test_id \notin StoredTestIds
                  \/ \A rid \in ResponseIds : responses_collection[rid].evaluated)
                 => /\ session'[s].pc = "done"
                    /\ ~session'[s].ok
                    /\ session'[s].message \in
                          {"Test not found", "No unevaluated responses found"}
                    /\ session'[s].todo = <<>>
                    /\ responses_collection' = responses_collection
              /\ \A i \in 1..Len(session'[s].todo) :
                    ~responses_collection[session'[s].todo[i]].evaluated]_vars

C27_Witness ==
    /\ session["s1"].kind = "batch"
    /\ session["s1"].pc = "done"
    /\ session["s1"].message = "Test not found"
    /\ ~session["s1"].ok
    /\ \E rid \in ResponseIds : responses_collection[rid].evaluated
    /\ \E rid \in ResponseIds : ~responses_collection[rid].evaluated

\* C28: a run of the script with nobody logged in goes through the login
\* page only (no page handler, no feature block) and ends without an error.
C28_LoggedOutRunEndsCleanly ==
    app.run = "logged out" =>
        /\ app.handlers = <<"login_page">>
        /\ app.error = "<none>"

FourFields == {"test_title", "total_duration", "total_marks", "sections"}

\* The code decodes to a JSON document.
Decodes(test_code) ==
    test_code.padded /\ test_code.utf8 /\ test_code.text.j # "invalid"

\* The decoded document is an object that has the four fields.
HasFourFields(test_code) ==
    /\ test_code.text.j = "object"
    /\ FourFields \subseteq {p.name : p \in test_code.text.members}

\* The value a dict holds under a name.
Holds(dict, name) == {p.value : p \in {x \in dict.members : x.name = name}}

\* The import of an exported code gives the test's four fields back, with
\* the success message.
RoundTrip ==
    (transfer.pc = "imported" /\ transfer.origin = "exported") =>
        /\ transfer.message = "Test imported successfully"
        /\ transfer.imported.k = "dict"
        /\ {p.name : p \in transfer.imported.members} = FourFields
        /\ \A m \in FourFields :
              (Holds(transfer.imported, m) = Holds(transfer.test, m)
               /\ Cardinality(Holds(transfer.imported, m)) = 1)

\* C30: importing the full code of an exported test returns the same four
\* fields and the success message; importing a code that does not decode or
\* whose document lacks one of the four fields returns (None, error message).
C30_ExportImportRoundTrip ==
    /\ RoundTrip
    /\ (/\ transfer.pc = "imported"
        /\ ~(Decodes(transfer.code) /\ HasFourFields(transfer.code)))
       => /\ transfer.imported = PyNone
          /\ transfer.message \in {"Error importing test", "Invalid test format"}
====
